---- MODULE Spec2Model ----
(***************************************************************************)
(* Model of the MiniLienzo rasterization engine (src/fig.py).              *)
(*                                                                         *)
(* A shape is constructed from its arguments (args), which either yields   *)
(* the object (shape) or raises (exc); draw() then performs a sequence of  *)
(* surface.set_at calls (calls) that paint pixels of the buffer (surface). *)
(* surface2 is a second buffer, blank like the first, the same shape can   *)
(* be drawn onto.                                                          *)
(*                                                                         *)
(* app holds the variables of the event loop of the application            *)
(* (src/main.py) and event the event it processed last.                    *)
(*                                                                         *)
(* Python floats are modelled by exact rationals <<n, d>> (d > 0, lowest   *)
(* terms).  int() truncates toward zero and round() rounds half to even,   *)
(* as in Python 3.                                                         *)
(***************************************************************************)
EXTENDS Integers, Sequences, FiniteSets, TLC

VARIABLES args, shape, exc, calls, surface, pc, surface2, app, event

vars == <<args, shape, exc, calls, surface, pc, surface2, app, event>>

\* No exception.
None == "None"

\* No object.
NoShape == [cls |-> "None"]

(***************************************************************************)
(* Bounds of the explored inputs.                                          *)
(***************************************************************************)
\* Line endpoints range over the integer points of [-IntMax, IntMax]^2 and
\* over the points of [-LineMax, LineMax]^2 whose coordinates are multiples
\* of 1/LineDen.
IntMax == 5
LineMax == 1
LineDen == 2
\* Circle centres range over [-CircleMaxC, CircleMaxC]^2 and radii over
\* -1..CircleMaxR.
CircleMaxC == 1
CircleMaxR == 8
\* Triangle vertices range over the grid (-1..TriMax)^2, polygon vertices
\* over (0..PolyMax)^2; the squares have sides 1..SquareMax.
TriMax == 2
PolyMax == 2
SquareMax == 10
\* The corners given to Rectangle.from_points range over
\* [-FromMax, FromMax]^2.
FromMax == 2
\* Rectangle and ellipse boxes have sizes -1..RectMax and -1..EllipseMax.
RectMax == 3
EllipseMax == 6
WideMax == 18
\* Bezier control points range over (0..BezMax)^2 and steps over
\* -1..BezMaxSteps and the default.
BezMax == 1
BezMaxSteps == 4
\* BezierCurve.__init__(..., steps=20)
DefaultSteps == 20
\* The constructors that count their points get 0..MaxPoints points.
MaxPoints == 5
\* The event loop is explored while fewer than MaxPending clicked points are
\* pending.
MaxPending == 5
\* SCREEN_WIDTH, LEFT_PANEL_WIDTH and RIGHT_PANEL_WIDTH of src/main.py.
SCREEN_WIDTH == 800
LEFT_PANEL_WIDTH == 60
RIGHT_PANEL_WIDTH == 60

(***************************************************************************)
(* Python numbers.                                                         *)
(***************************************************************************)
Abs(n) == IF n < 0 THEN -n ELSE n

Max2(a, b) == IF a >= b THEN a ELSE b

Min2(a, b) == IF a <= b THEN a ELSE b

RECURSIVE GCD(_, _)
GCD(a, b) == IF b = 0 THEN a ELSE GCD(b, a % b)

\* The rational n/d (d # 0) in lowest terms with a positive denominator.
Rat(n, d) ==
    LET g == GCD(Abs(n), Abs(d))
        s == IF d < 0 THEN -1 ELSE 1
    IN  <<(s * n) \div g, (s * d) \div g>>

\* An int as a number.
R(n) == <<n, 1>>

RAdd(a, b) == Rat(a[1] * b[2] + b[1] * a[2], a[2] * b[2])

RSub(a, b) == Rat(a[1] * b[2] - b[1] * a[2], a[2] * b[2])

RMul(a, b) == Rat(a[1] * b[1], a[2] * b[2])

\* a / b, b # 0 (true division).
RDiv(a, b) == Rat(a[1] * b[2], a[2] * b[1])

RAbs(a) == <<Abs(a[1]), a[2]>>

RLess(a, b) == a[1] * b[2] < b[1] * a[2]

RMax(a, b) == IF RLess(a, b) THEN b ELSE a

RIsInt(a) == a[2] = 1

\* int(a): truncation toward zero.
RInt(a) == IF a[1] >= 0 THEN a[1] \div a[2] ELSE -((-a[1]) \div a[2])

\* round(a): nearest integer, ties to the even one.
RRound(a) ==
    LET f == a[1] \div a[2]
        r == a[1] - f * a[2]
    IN  IF 2 * r < a[2] THEN f
        ELSE IF 2 * r > a[2] THEN f + 1
        ELSE IF f % 2 = 0 THEN f ELSE f + 1

\* int(math.sqrt(n)) for an integer n >= 0.
ISqrt(n) == CHOOSE m \in 0..n : m * m <= n /\ n < (m + 1) * (m + 1)

\* range(a, b, s) for s in {1, -1}, as a sequence.
Range(a, b, s) ==
    LET n == IF s > 0 THEN Max2(b - a, 0) ELSE Max2(a - b, 0)
    IN  [i \in 1..n |-> a + (i - 1) * s]

\* range(a, b)
Range1(a, b) == Range(a, b, 1)

RECURSIVE Concat(_)
Concat(ss) == IF ss = <<>> THEN <<>> ELSE Head(ss) \o Concat(Tail(ss))

Image(s) == {s[i] : i \in DOMAIN s}

(***************************************************************************)
(* Line                                                                    *)
(***************************************************************************)
\* Line.__init__
Line(start_pos, end_pos, algorithm) ==
    [cls |-> "Line", start_pos |-> start_pos, end_pos |-> end_pos,
     algorithm |-> algorithm]

\* The loop of Line._draw_dda: n iterations from (x, y).  The sums are
\* exact; the binary floats of the code can drift off an exact .5 at an
\* interior pixel and round it to the other neighbour, never at the first
\* pixel (no sum yet) and not at the last one for the explored endpoints.
RECURSIVE DDALoop(_, _, _, _, _)
DDALoop(x, y, x_increment, y_increment, n) ==
    IF n <= 0 THEN <<>>
    ELSE <<<<RRound(x), RRound(y)>>>>
         \o DDALoop(RAdd(x, x_increment), RAdd(y, y_increment),
                    x_increment, y_increment, n - 1)

\* The divisors Line._draw_dda divides by.
DDADivisors(self) ==
    LET dx == RSub(self.end_pos[1], self.start_pos[1])
        dy == RSub(self.end_pos[2], self.start_pos[2])
        steps == RMax(RAbs(dx), RAbs(dy))
    IN  IF steps = R(0) THEN {} ELSE {steps}

\* Mutant: the zero-length branch returns without writing its pixel.
DrawDDANoPixel(self) ==
    LET x1 == self.start_pos[1]
        y1 == self.start_pos[2]
        x2 == self.end_pos[1]
        y2 == self.end_pos[2]
        dx == RSub(x2, x1)
        dy == RSub(y2, y1)
        steps == RMax(RAbs(dx), RAbs(dy))
    IN  IF steps = R(0) THEN <<>>
        ELSE DDALoop(x1, y1, RDiv(dx, steps), RDiv(dy, steps),
                     RInt(steps) + 1)

\* Line._draw_dda: the set_at calls, in order.
DrawDDA(self) ==
    LET x1 == self.start_pos[1]
        y1 == self.start_pos[2]
        x2 == self.end_pos[1]
        y2 == self.end_pos[2]
        dx == RSub(x2, x1)
        dy == RSub(y2, y1)
        steps == RMax(RAbs(dx), RAbs(dy))
    IN  IF steps = R(0) THEN <<<<RInt(x1), RInt(y1)>>>>
        ELSE DDALoop(x1, y1, RDiv(dx, steps), RDiv(dy, steps),
                     RInt(steps) + 1)

\* The loop of Line._draw_bresenham over xs = range(x1, x2 + sx, sx), with
\* the current minor coordinate y and the error accumulator.
RECURSIVE BresenhamLoop(_, _, _, _, _, _, _)
BresenhamLoop(xs, y, error, dx, dy, sy, steep) ==
    IF xs = <<>> THEN <<>>
    ELSE LET x == Head(xs)
             e == error - dy
         IN  <<IF steep THEN <<y, x>> ELSE <<x, y>>>>
             \o BresenhamLoop(Tail(xs),
                              IF e < 0 THEN y + sy ELSE y,
                              IF e < 0 THEN e + dx ELSE e,
                              dx, dy, sy, steep)

\* Mutant: the loop runs over range(x1, x2, sx) and misses the end pixel.
BresenhamPointsOpenEnd(x1, y1, x2, y2) ==
    LET dx0 == Abs(x2 - x1)
        dy0 == Abs(y2 - y1)
        sx0 == IF x1 < x2 THEN 1 ELSE -1
        sy0 == IF y1 < y2 THEN 1 ELSE -1
        steep == dy0 > dx0
        a1 == IF steep THEN y1 ELSE x1
        a2 == IF steep THEN y2 ELSE x2
        b1 == IF steep THEN x1 ELSE y1
        dx == IF steep THEN dy0 ELSE dx0
        dy == IF steep THEN dx0 ELSE dy0
        sx == IF steep THEN sy0 ELSE sx0
        sy == IF steep THEN sx0 ELSE sy0
    IN  BresenhamLoop(Range(a1, a2, sx), b1, dx \div 2, dx, dy, sy, steep)

\* Mutant: the error accumulator starts at 0 instead of dx // 2.
BresenhamPointsZeroError(x1, y1, x2, y2) ==
    LET dx0 == Abs(x2 - x1)
        dy0 == Abs(y2 - y1)
        sx0 == IF x1 < x2 THEN 1 ELSE -1
        sy0 == IF y1 < y2 THEN 1 ELSE -1
        steep == dy0 > dx0
        a1 == IF steep THEN y1 ELSE x1
        a2 == IF steep THEN y2 ELSE x2
        b1 == IF steep THEN x1 ELSE y1
        dx == IF steep THEN dy0 ELSE dx0
        dy == IF steep THEN dx0 ELSE dy0
        sx == IF steep THEN sy0 ELSE sx0
        sy == IF steep THEN sx0 ELSE sy0
    IN  BresenhamLoop(Range(a1, a2 + sx, sx), b1, 0, dx, dy, sy, steep)

\* Line._draw_bresenham on the integer endpoints (x1, y1), (x2, y2).
BresenhamPoints(x1, y1, x2, y2) ==
    LET dx0 == Abs(x2 - x1)
        dy0 == Abs(y2 - y1)
        sx0 == IF x1 < x2 THEN 1 ELSE -1
        sy0 == IF y1 < y2 THEN 1 ELSE -1
        steep == dy0 > dx0
        a1 == IF steep THEN y1 ELSE x1
        a2 == IF steep THEN y2 ELSE x2
        b1 == IF steep THEN x1 ELSE y1
        dx == IF steep THEN dy0 ELSE dx0
        dy == IF steep THEN dx0 ELSE dy0
        sx == IF steep THEN sy0 ELSE sx0
        sy == IF steep THEN sx0 ELSE sy0
    IN  BresenhamLoop(Range(a1, a2 + sx, sx), b1, dx \div 2, dx, dy, sy, steep)

\* Line._draw_bresenham: the set_at calls, in order.
DrawBresenham(self) ==
    BresenhamPoints(RInt(self.start_pos[1]), RInt(self.start_pos[2]),
                    RInt(self.end_pos[1]), RInt(self.end_pos[2]))

\* Line.draw.  The 'pygame' algorithm hands the segment to the graphics
\* library, whose pixels are not the repository's: it is left out of the
\* explored inputs.
LineDraw(self) ==
    IF self.algorithm = "dda" THEN DrawDDA(self)
    ELSE IF self.algorithm = "bresenham" THEN DrawBresenham(self)
    ELSE <<>>

LineDivisors(self) ==
    IF self.algorithm = "dda" THEN DDADivisors(self) ELSE {}

\* A line with integer endpoints drawn by Bresenham, as every other shape
\* draws its runs: Line((x1, y1), (x2, y2), color, False, 'bresenham').draw().
BLine(x1, y1, x2, y2) ==
    LineDraw(Line(<<R(x1), R(y1)>>, <<R(x2), R(y2)>>, "bresenham"))

(***************************************************************************)
(* Circle                                                                  *)
(***************************************************************************)
\* Circle.__init__
Circle(center, radius, filled, algorithm) ==
    [cls |-> "Circle", center |-> center, radius |-> RInt(radius),
     filled |-> filled, algorithm |-> algorithm]

\* Mutant: the seventh point repeats the sixth, (x0 - y, y0 + x) is missed.
CirclePlot8Typo(x0, y0, x, y) ==
    <<<<x0 + x, y0 + y>>, <<x0 + y, y0 + x>>, <<x0 + y, y0 - x>>,
      <<x0 + x, y0 - y>>, <<x0 - x, y0 - y>>, <<x0 - y, y0 - x>>,
      <<x0 - y, y0 - x>>, <<x0 - x, y0 + y>>>>

\* The 8 set_at calls of one iteration of the outline loop.
CirclePlot8(x0, y0, x, y) ==
    <<<<x0 + x, y0 + y>>, <<x0 + y, y0 + x>>, <<x0 + y, y0 - x>>,
      <<x0 + x, y0 - y>>, <<x0 - x, y0 - y>>, <<x0 - y, y0 - x>>,
      <<x0 - y, y0 + x>>, <<x0 - x, y0 + y>>>>

\* Mutant: the two middle spans reach x0 - x .. x0 + x instead of
\* x0 - y .. x0 + y.
CircleSpans4Narrow(x0, y0, x, y) ==
    BLine(x0 - x, y0 + y, x0 + x, y0 + y)
    \o BLine(x0 - x, y0 + x, x0 + x, y0 + x)
    \o BLine(x0 - x, y0 - x, x0 + x, y0 - x)
    \o BLine(x0 - x, y0 - y, x0 + x, y0 - y)

\* The 4 horizontal lines of one iteration of the filled loop.
CircleSpans4(x0, y0, x, y) ==
    BLine(x0 - x, y0 + y, x0 + x, y0 + y)
    \o BLine(x0 - y, y0 + x, x0 + y, y0 + x)
    \o BLine(x0 - y, y0 - x, x0 + y, y0 - x)
    \o BLine(x0 - x, y0 - y, x0 + x, y0 - y)

\* The decision variable and y after one iteration.
CircleNextD(d, x, y) == IF d < 0 THEN d + 4 * x + 6 ELSE d + 4 * (x - y) + 10

\* Mutant: y is never decremented.
CircleNextYStuck(d, y) == y

CircleNextY(d, y) == IF d < 0 THEN y ELSE y - 1

\* while x <= y: ... of Circle._draw_bresenham
RECURSIVE CircleLoop(_, _, _, _, _, _)
CircleLoop(x, y, d, x0, y0, filled) ==
    IF ~(x <= y) THEN <<>>
    ELSE (IF filled THEN CircleSpans4(x0, y0, x, y)
                    ELSE CirclePlot8(x0, y0, x, y))
         \o CircleLoop(x + 1, CircleNextY(d, y), CircleNextD(d, x, y),
                       x0, y0, filled)

\* Mutant: only a negative radius is degenerate (radius < 0).
DrawCircleBresenhamNegative(self) ==
    LET x0 == self.center[1]
        y0 == self.center[2]
        radius == self.radius
    IN  IF radius < 0 THEN <<<<x0, y0>>>>
        ELSE CircleLoop(0, radius, 3 - 2 * radius, x0, y0, self.filled)

\* Circle._draw_bresenham: the set_at calls, in order.
DrawCircleBresenham(self) ==
    LET x0 == self.center[1]
        y0 == self.center[2]
        radius == self.radius
    IN  IF radius <= 0 THEN <<<<x0, y0>>>>
        ELSE CircleLoop(0, radius, 3 - 2 * radius, x0, y0, self.filled)

\* Circle.from_points(p1, p2, color, filled, algorithm): the radius is
\* math.dist(p1, p2), of which the rasterizer uses the integer part.
CircleFromPoints(p1, p2, filled, algorithm) ==
    [cls |-> "Circle", center |-> p1,
     radius |-> ISqrt((p1[1] - p2[1]) * (p1[1] - p2[1])
                      + (p1[2] - p2[2]) * (p1[2] - p2[2])),
     filled |-> filled, algorithm |-> algorithm]

\* Circle.draw ('pygame' is the library's circle, not explored).
CircleDraw(self) ==
    IF self.algorithm = "bresenham" THEN DrawCircleBresenham(self) ELSE <<>>

(***************************************************************************)
(* Rectangle                                                               *)
(***************************************************************************)
\* pygame.Rect(rect) followed by normalize(): a negative size is flipped.
NormalizedRect(rect) ==
    [x |-> IF rect.width < 0 THEN rect.x + rect.width ELSE rect.x,
     y |-> IF rect.height < 0 THEN rect.y + rect.height ELSE rect.y,
     width |-> Abs(rect.width),
     height |-> Abs(rect.height)]

\* Rectangle.__init__
Rectangle(rect, filled) ==
    [cls |-> "Rectangle", rect |-> NormalizedRect(rect), filled |-> filled]

\* Rectangle.draw: the set_at calls, in order.
RectangleDraw(self) ==
    LET x == self.rect.x
        y == self.rect.y
        w == self.rect.width
        h == self.rect.height
        rows == Range1(y, y + h)
    IN  IF self.filled
        THEN Concat([k \in DOMAIN rows |-> BLine(x, rows[k], x + w - 1, rows[k])])
        ELSE BLine(x, y, x + w - 1, y)
             \o BLine(x + w - 1, y, x + w - 1, y + h - 1)
             \o BLine(x, y + h - 1, x + w - 1, y + h - 1)
             \o BLine(x, y, x, y + h - 1)

\* Mutant: x and y are those of p1 (no min).
RectangleFromPointsFirst(p1, p2, filled) ==
    Rectangle([x |-> p1[1], y |-> p1[2],
               width |-> Abs(p1[1] - p2[1]), height |-> Abs(p1[2] - p2[2])],
              filled)

\* Rectangle.from_points(p1, p2, color, filled)
RectangleFromPoints(p1, p2, filled) ==
    Rectangle([x |-> Min2(p1[1], p2[1]), y |-> Min2(p1[2], p2[2]),
               width |-> Abs(p1[1] - p2[1]), height |-> Abs(p1[2] - p2[2])],
              filled)

(***************************************************************************)
(* Ellipse                                                                 *)
(***************************************************************************)
\* Ellipse.__init__
Ellipse(rect, filled) ==
    [cls |-> "Ellipse", rect |-> NormalizedRect(rect), filled |-> filled]

\* draw_points(x, y): the 4 mirrored set_at calls.
EllipsePlot4(xc, yc, x, y) ==
    <<<<xc + x, yc + y>>, <<xc - x, yc + y>>, <<xc + x, yc - y>>,
      <<xc - x, yc - y>>>>

\* Region 1 of Ellipse._draw_bresenham_ellipse from the state (x, y, dx, dy,
\* d1): the calls and the state the loop ends in.
RECURSIVE EllipseRegion1(_, _, _, _, _, _)
EllipseRegion1(x, y, dx, dy, d1, e) ==
    IF ~(dx < dy) THEN [calls |-> <<>>, x |-> x, y |-> y, dx |-> dx, dy |-> dy]
    ELSE LET dx2 == dx + 2 * e.ry * e.ry
             dy2 == dy - 2 * e.rx * e.rx
             rest == IF RLess(d1, R(0))
                     THEN EllipseRegion1(x + 1, y, dx2, dy,
                              RAdd(d1, R(dx2 + e.ry * e.ry)), e)
                     ELSE EllipseRegion1(x + 1, y - 1, dx2, dy2,
                              RAdd(d1, R(dx2 - dy2 + e.ry * e.ry)), e)
         IN  [rest EXCEPT !.calls = EllipsePlot4(e.xc, e.yc, x, y) \o rest.calls]

\* Region 2 from the state (x, y, dx, dy, d2).
RECURSIVE EllipseRegion2(_, _, _, _, _, _)
EllipseRegion2(x, y, dx, dy, d2, e) ==
    IF ~(y >= 0) THEN <<>>
    ELSE LET dx2 == dx + 2 * e.ry * e.ry
             dy2 == dy - 2 * e.rx * e.rx
         IN  EllipsePlot4(e.xc, e.yc, x, y)
             \o (IF RLess(R(0), d2)
                 THEN EllipseRegion2(x, y - 1, dx, dy2,
                          RAdd(d2, R(e.rx * e.rx - dy2)), e)
                 ELSE EllipseRegion2(x + 1, y - 1, dx2, dy2,
                          RAdd(d2, R(dx2 - dy2 + e.rx * e.rx)), e))

\* Ellipse._draw_bresenham_ellipse: the set_at calls, in order.
DrawBresenhamEllipse(xc, yc, rx, ry) ==
    LET e == [xc |-> xc, yc |-> yc, rx |-> rx, ry |-> ry]
        d1 == RAdd(R(ry * ry - rx * rx * ry), RMul(Rat(1, 4), R(rx * rx)))
        r1 == EllipseRegion1(0, ry, 2 * ry * ry * 0, 2 * rx * rx * ry, d1, e)
        xh == RAdd(R(r1.x), Rat(1, 2))
        d2 == RSub(RAdd(RMul(R(ry * ry), RMul(xh, xh)),
                        R(rx * rx * ((r1.y - 1) * (r1.y - 1)))),
                   R(rx * rx * ry * ry))
    IN  r1.calls \o EllipseRegion2(r1.x, r1.y, r1.dx, r1.dy, d2, e)

\* (1.0 - dy_squared / (ry * ry)) * (rx * rx)
EllipseTerm(y, yc, rx, ry) ==
    RMul(RSub(R(1), RDiv(R((y - yc) * (y - yc)), R(ry * ry))), R(rx * rx))

\* One scanline of Ellipse._draw_filled.
EllipseRow(y, xc, yc, rx, ry) ==
    IF ry = 0 THEN <<>>
    ELSE IF RLess(EllipseTerm(y, yc, rx, ry), R(0)) THEN <<>>
    ELSE LET dx == ISqrt(RInt(EllipseTerm(y, yc, rx, ry)))
         IN  BLine(xc - dx, y, xc + dx, y)

\* Ellipse._draw_filled: the set_at calls, in order.
EllipseDrawFilled(xc, yc, rx, ry) ==
    LET rows == Range1(yc - ry, yc + ry + 1)
    IN  Concat([k \in DOMAIN rows |-> EllipseRow(rows[k], xc, yc, rx, ry)])

\* Mutant: only a negative half-axis is degenerate (rx < 0 or ry < 0).
EllipseDrawNegative(self) ==
    LET xc == self.rect.x + self.rect.width \div 2
        yc == self.rect.y + self.rect.height \div 2
        rx == self.rect.width \div 2
        ry == self.rect.height \div 2
    IN  IF self.rect.width < 1 \/ self.rect.height < 1 THEN <<>>
        ELSE IF rx < 0 \/ ry < 0 THEN <<<<xc, yc>>>>
        ELSE IF self.filled THEN EllipseDrawFilled(xc, yc, rx, ry)
        ELSE DrawBresenhamEllipse(xc, yc, rx, ry)

\* Mutant: the test of a box smaller than 1x1 is missing.
EllipseDrawNoReturn(self) ==
    LET xc == self.rect.x + self.rect.width \div 2
        yc == self.rect.y + self.rect.height \div 2
        rx == self.rect.width \div 2
        ry == self.rect.height \div 2
    IN  IF rx <= 0 \/ ry <= 0 THEN <<<<xc, yc>>>>
        ELSE IF self.filled THEN EllipseDrawFilled(xc, yc, rx, ry)
        ELSE DrawBresenhamEllipse(xc, yc, rx, ry)

\* Ellipse.draw: the set_at calls, in order.
EllipseDraw(self) ==
    LET xc == self.rect.x + self.rect.width \div 2
        yc == self.rect.y + self.rect.height \div 2
        rx == self.rect.width \div 2
        ry == self.rect.height \div 2
    IN  IF self.rect.width < 1 \/ self.rect.height < 1 THEN <<>>
        ELSE IF rx <= 0 \/ ry <= 0 THEN <<<<xc, yc>>>>
        ELSE IF self.filled THEN EllipseDrawFilled(xc, yc, rx, ry)
        ELSE DrawBresenhamEllipse(xc, yc, rx, ry)

\* Ellipse.from_points(p1, p2, color, filled)
EllipseFromPoints(p1, p2, filled) ==
    Ellipse([x |-> Min2(p1[1], p2[1]), y |-> Min2(p1[2], p2[2]),
             width |-> Abs(p1[1] - p2[1]), height |-> Abs(p1[2] - p2[2])],
            filled)

\* The divisors Ellipse.draw divides by (in _draw_filled).
EllipseDivisors(self) ==
    LET rx == self.rect.width \div 2
        ry == self.rect.height \div 2
    IN  IF self.rect.width < 1 \/ self.rect.height < 1 THEN {}
        ELSE IF rx <= 0 \/ ry <= 0 THEN {}
        ELSE IF self.filled /\ ry # 0 THEN {R(ry * ry)}
        ELSE {}

(***************************************************************************)
(* Triangle                                                                *)
(***************************************************************************)
\* Triangle.__init__ once len(points) == 3 has been checked.
Triangle(points, filled) ==
    [cls |-> "Triangle", points |-> points, filled |-> filled]

\* The outline of a Triangle or a Polygon: a Bresenham line from each vertex
\* to the next one, the last to the first.
OutlineCalls(points) ==
    LET n == Len(points)
    IN  Concat([i \in 1..n |->
                   BLine(points[i][1], points[i][2],
                         points[(i % n) + 1][1], points[(i % n) + 1][2])])

\* sorted(points, key=lambda p: p[1]): a stable sort by y.
RECURSIVE InsertByY(_, _)
InsertByY(p, s) ==
    IF s = <<>> THEN <<p>>
    ELSE IF p[2] < Head(s)[2] THEN <<p>> \o s
    ELSE <<Head(s)>> \o InsertByY(p, Tail(s))

RECURSIVE SortedByY(_)
SortedByY(points) ==
    IF points = <<>> THEN <<>>
    ELSE InsertByY(points[Len(points)], SortedByY(SubSeq(points, 1, Len(points) - 1)))

\* (b - a) / (d - c) if d != c else 0
Slope(a, b, c, d) == IF d # c THEN RDiv(R(b - a), R(d - c)) ELSE R(0)

\* Mutant: the slope is computed without its "if d != c" guard.
SlopeDivisorsUnguarded(c, d) == {R(d - c)}

\* The divisors of the three slopes of Triangle._draw_filled.
SlopeDivisors(c, d) == IF d # c THEN {R(d - c)} ELSE {}

\* if x_left > x_right: x_left, x_right = x_right, x_left
Ordered(lr) == IF RLess(lr[2], lr[1]) THEN <<lr[2], lr[1]>> ELSE lr

\* One scanline: the line from int(x_left) to int(x_right).
TriSpan(lr, y) == BLine(RInt(lr[1]), y, RInt(lr[2]), y)

\* The upper loop of Triangle._draw_filled over the scanlines ys, entered with
\* lr = <<x_left, x_right>>: the calls and the final <<x_left, x_right>>.
RECURSIVE TriUpper(_, _, _)
TriUpper(ys, lr, t) ==
    IF ys = <<>> THEN [calls |-> <<>>, lr |-> lr]
    ELSE LET y == Head(ys)
             xr == IF t.y2 # t.y1
                   THEN RAdd(R(t.x1), RMul(R(y - t.y1), t.slope_1_2))
                   ELSE lr[2]
             xl == IF t.y3 # t.y1
                   THEN RAdd(R(t.x1), RMul(R(y - t.y1), t.slope_1_3))
                   ELSE lr[1]
             o == Ordered(<<xl, xr>>)
             rest == TriUpper(Tail(ys), o, t)
         IN  [calls |-> TriSpan(o, y) \o rest.calls, lr |-> rest.lr]

\* The lower loop of Triangle._draw_filled.
RECURSIVE TriLower(_, _, _)
TriLower(ys, lr, t) ==
    IF ys = <<>> THEN [calls |-> <<>>, lr |-> lr]
    ELSE LET y == Head(ys)
             xl == IF t.y3 # t.y1
                   THEN RAdd(R(t.x1), RMul(R(y - t.y1), t.slope_1_3))
                   ELSE lr[1]
             xr == IF t.y3 # t.y2
                   THEN RAdd(R(t.x2), RMul(R(y - t.y2), t.slope_2_3))
                   ELSE lr[2]
             o == Ordered(<<xl, xr>>)
             rest == TriLower(Tail(ys), o, t)
         IN  [calls |-> TriSpan(o, y) \o rest.calls, lr |-> rest.lr]

\* Between the loops: if y3 != y2, x_left or x_right restarts at x2.
TriReset(lr, t) ==
    IF t.y3 # t.y2
    THEN IF t.x2 < t.x3 THEN <<R(t.x2), lr[2]>> ELSE <<lr[1], R(t.x2)>>
    ELSE lr

\* The sorted vertices and the slopes of Triangle._draw_filled.
TriSetup(self) ==
    LET sp == SortedByY(self.points)
        x1 == sp[1][1]
        y1 == sp[1][2]
        x2 == sp[2][1]
        y2 == sp[2][2]
        x3 == sp[3][1]
        y3 == sp[3][2]
    IN  [x1 |-> x1, y1 |-> y1, x2 |-> x2, y2 |-> y2, x3 |-> x3, y3 |-> y3,
         slope_1_3 |-> Slope(x1, x3, y1, y3),
         slope_1_2 |-> Slope(x1, x2, y1, y2),
         slope_2_3 |-> Slope(x2, x3, y2, y3)]

\* Triangle._draw_filled: the set_at calls, in order.
TriangleDrawFilled(self) ==
    LET t == TriSetup(self)
    IN  IF t.x1 = t.x2 /\ t.x2 = t.x3
        THEN [i \in 1..Len(Range1(t.y1, t.y3 + 1)) |->
                 <<t.x1, Range1(t.y1, t.y3 + 1)[i]>>]
        ELSE LET up == TriUpper(Range1(t.y1, t.y2 + 1), <<R(t.x1), R(t.x1)>>, t)
                 low == TriLower(Range1(t.y2 + 1, t.y3 + 1), TriReset(up.lr, t), t)
             IN  up.calls \o low.calls

TriangleDivisors(self) ==
    LET sp == SortedByY(self.points)
    IN  IF ~self.filled \/ (sp[1][1] = sp[2][1] /\ sp[2][1] = sp[3][1]) THEN {}
        ELSE SlopeDivisors(sp[1][2], sp[3][2])
             \cup SlopeDivisors(sp[1][2], sp[2][2])
             \cup SlopeDivisors(sp[2][2], sp[3][2])

\* Triangle.draw
TriangleDraw(self) ==
    IF self.filled THEN TriangleDrawFilled(self) ELSE OutlineCalls(self.points)

(***************************************************************************)
(* Polygon                                                                 *)
(***************************************************************************)
\* Polygon.__init__ once len(points) >= 3 has been checked.
Polygon(points, filled) ==
    [cls |-> "Polygon", points |-> points, filled |-> filled]

\* list.sort() on ints.
RECURSIVE InsertInt(_, _)
InsertInt(v, s) ==
    IF s = <<>> THEN <<v>>
    ELSE IF v < Head(s) THEN <<v>> \o s
    ELSE <<Head(s)>> \o InsertInt(v, Tail(s))

RECURSIVE SortInts(_)
SortInts(s) ==
    IF s = <<>> THEN <<>>
    ELSE InsertInt(s[Len(s)], SortInts(SubSeq(s, 1, Len(s) - 1)))

\* Mutant: only the upward test (p1[1] <= y < p2[1]).
CrossesUpward(p1, p2, y) ==
    /\ p1[2] <= y /\ y < p2[2]
    /\ ~(p1[2] = p2[2])

\* Mutant: the closed test (p1[1] <= y <= p2[1]) or (p2[1] <= y <= p1[1]).
CrossesClosed(p1, p2, y) ==
    /\ (p1[2] <= y /\ y <= p2[2]) \/ (p2[2] <= y /\ y <= p1[2])
    /\ ~(p1[2] = p2[2])

\* (p1[1] <= y < p2[1]) or (p2[1] <= y < p1[1]), and the edge not horizontal.
Crosses(p1, p2, y) ==
    /\ (p1[2] <= y /\ y < p2[2]) \/ (p2[2] <= y /\ y < p1[2])
    /\ ~(p1[2] = p2[2])

\* int(p1[0] + (y - p1[1]) * (p2[0] - p1[0]) / (p2[1] - p1[1]))
EdgeX(p1, p2, y) ==
    RInt(RAdd(R(p1[1]),
              RDiv(R((y - p1[2]) * (p2[1] - p1[1])), R(p2[2] - p1[2]))))

\* The intersections of scanline y with the edges, in edge order.
RECURSIVE Intersections(_, _, _)
Intersections(points, i, y) ==
    IF i > Len(points) THEN <<>>
    ELSE LET p1 == points[i]
             p2 == points[(i % Len(points)) + 1]
         IN  (IF Crosses(p1, p2, y) THEN <<EdgeX(p1, p2, y)>> ELSE <<>>)
             \o Intersections(points, i + 1, y)

\* The spans of the sorted intersections xs, from index i in steps of 2.
RECURSIVE PairSpans(_, _, _)
PairSpans(xs, i, y) ==
    IF i > Len(xs) THEN <<>>
    ELSE (IF i + 1 <= Len(xs) THEN BLine(xs[i], y, xs[i + 1], y) ELSE <<>>)
         \o PairSpans(xs, i + 2, y)

SeqMin(f) == CHOOSE v \in Image(f) : \A w \in Image(f) : v <= w

SeqMax(f) == CHOOSE v \in Image(f) : \A w \in Image(f) : v >= w

\* The scanlines of Polygon._draw_filled: range(min_y, max_y + 1).
Scanlines(points) ==
    LET ys == [i \in DOMAIN points |-> points[i][2]]
    IN  Range1(SeqMin(ys), SeqMax(ys) + 1)

\* Polygon._draw_filled: the set_at calls, in order.
PolygonDrawFilled(self) ==
    LET rows == Scanlines(self.points)
    IN  Concat([k \in DOMAIN rows |->
                   PairSpans(SortInts(Intersections(self.points, 1, rows[k])),
                             1, rows[k])])

PolygonDivisors(self) ==
    IF ~self.filled THEN {}
    ELSE LET n == Len(self.points)
             rows == Image(Scanlines(self.points))
         IN  {R(self.points[(i % n) + 1][2] - self.points[i][2]) :
                 i \in {j \in 1..n : \E y \in rows :
                           Crosses(self.points[j], self.points[(j % n) + 1], y)}}

\* Polygon.draw
PolygonDraw(self) ==
    IF self.filled THEN PolygonDrawFilled(self) ELSE OutlineCalls(self.points)

(***************************************************************************)
(* BezierCurve                                                             *)
(***************************************************************************)
\* One coordinate of the curve at t, with inv_t = 1 - t:
\* inv_t**3 * c0 + 3 * inv_t**2 * t * c1 + 3 * inv_t * t**2 * c2 + t**3 * c3
Bernstein(t, c0, c1, c2, c3) ==
    LET inv_t == RSub(R(1), t)
        inv_t2 == RMul(inv_t, inv_t)
        inv_t3 == RMul(inv_t2, inv_t)
        t2 == RMul(t, t)
        t3 == RMul(t2, t)
    IN  RAdd(RAdd(RAdd(RMul(inv_t3, R(c0)),
                       RMul(RMul(RMul(R(3), inv_t2), t), R(c1))),
                  RMul(RMul(RMul(R(3), inv_t), t2), R(c2))),
             RMul(t3, R(c3)))

\* The point appended for i, with t = i / steps.  The polynomial is exact;
\* for t = 0 and t = 1 the floats of the code are exact too, for a t that
\* is no binary fraction (steps = 20) an interior sample that is an exact
\* integer here can come out one lower in the code.
BezierPoint(cp, steps, i) ==
    LET t == RDiv(R(i), R(steps))
    IN  <<RInt(Bernstein(t, cp[1][1], cp[2][1], cp[3][1], cp[4][1])),
          RInt(Bernstein(t, cp[1][2], cp[2][2], cp[3][2], cp[4][2]))>>

\* Mutant: the loop runs over range(steps) and misses t = 1.
CalculatePointsShort(cp, steps) ==
    LET is == Range1(0, steps)
    IN  [k \in DOMAIN is |-> BezierPoint(cp, steps, is[k])]

\* BezierCurve._calculate_points: self.points (steps # 0).
CalculatePoints(cp, steps) ==
    LET is == Range1(0, steps + 1)
    IN  [k \in DOMAIN is |-> BezierPoint(cp, steps, is[k])]

\* The divisors _calculate_points divides by: steps, once per i.
CalculateDivisors(steps) == IF Range1(0, steps + 1) # <<>> THEN {R(steps)} ELSE {}

\* BezierCurve.__init__ once len(control_points) == 4 has been checked and
\* _calculate_points has not raised.
BezierCurve(control_points, steps) ==
    [cls |-> "BezierCurve", control_points |-> control_points,
     steps |-> steps, points |-> CalculatePoints(control_points, steps)]

\* BezierCurve.draw: the set_at calls, in order.
BezierDraw(self) ==
    IF Len(self.points) < 2 THEN <<>>
    ELSE Concat([i \in 1..(Len(self.points) - 1) |->
                    BLine(self.points[i][1], self.points[i][2],
                          self.points[i + 1][1], self.points[i + 1][2])])

(***************************************************************************)
(* The life of a shape: construction from args, then draw(surface).        *)
(***************************************************************************)
\* The outcome of a constructor: the object, or the exception it raises.
Returns(obj) == [exc |-> None, shape |-> obj]

Raises(e) == [exc |-> e, shape |-> NoShape]

\* Mutant: the check is len(points) < 3, as for Polygon.
NewTriangleAtLeast3(points, filled) ==
    IF Len(points) < 3 THEN Raises("ValueError")
    ELSE Returns(Triangle(points, filled))

\* Triangle(points, color, filled)
NewTriangle(points, filled) ==
    IF Len(points) # 3 THEN Raises("ValueError")
    ELSE Returns(Triangle(points, filled))

\* Polygon(points, color, filled)
NewPolygon(points, filled) ==
    IF Len(points) < 3 THEN Raises("ValueError")
    ELSE Returns(Polygon(points, filled))

\* BezierCurve(control_points, color, filled, steps)
NewBezierCurve(control_points, steps) ==
    IF Len(control_points) # 4 THEN Raises("ValueError")
    ELSE IF R(0) \in CalculateDivisors(steps) THEN Raises("ZeroDivisionError")
    ELSE Returns(BezierCurve(control_points, steps))

\* cls(...) for the arguments a.
Construct(a) ==
    IF a.cls = "Line" THEN Returns(Line(a.start_pos, a.end_pos, a.algorithm))
    ELSE IF a.cls = "Circle"
    THEN Returns(Circle(a.center, a.radius, a.filled, a.algorithm))
    ELSE IF a.cls = "Rectangle" THEN Returns(Rectangle(a.rect, a.filled))
    ELSE IF a.cls = "Rectangle.from_points"
    THEN Returns(RectangleFromPoints(a.p1, a.p2, a.filled))
    ELSE IF a.cls = "Ellipse" THEN Returns(Ellipse(a.rect, a.filled))
    ELSE IF a.cls = "Ellipse.from_points"
    THEN Returns(EllipseFromPoints(a.p1, a.p2, a.filled))
    ELSE IF a.cls = "Circle.from_points"
    THEN Returns(CircleFromPoints(a.p1, a.p2, a.filled, a.algorithm))
    ELSE IF a.cls = "Triangle" THEN NewTriangle(a.points, a.filled)
    ELSE IF a.cls = "Polygon" THEN NewPolygon(a.points, a.filled)
    ELSE NewBezierCurve(a.control_points, a.steps)

\* The divisors shape.draw divides by.
DrawDivisors(self) ==
    IF self.cls = "Line" THEN LineDivisors(self)
    ELSE IF self.cls = "Triangle" THEN TriangleDivisors(self)
    ELSE IF self.cls = "Polygon" THEN PolygonDivisors(self)
    ELSE IF self.cls = "Ellipse" THEN EllipseDivisors(self)
    ELSE {}

\* Mutant: draw() writes once only; a draw after a completed one, which
\* left its calls behind, writes nothing.
DrawCallsOnce(self) ==
    IF calls # <<>> THEN <<>>
    ELSE IF self.cls = "Line" THEN LineDraw(self)
    ELSE IF self.cls = "Circle" THEN CircleDraw(self)
    ELSE IF self.cls = "Triangle" THEN TriangleDraw(self)
    ELSE IF self.cls = "Polygon" THEN PolygonDraw(self)
    ELSE IF self.cls = "Rectangle" THEN RectangleDraw(self)
    ELSE IF self.cls = "Ellipse" THEN EllipseDraw(self)
    ELSE IF self.cls = "BezierCurve" THEN BezierDraw(self)
    ELSE <<>>

\* shape.draw(surface): the set_at calls, in order.
DrawCalls(self) ==
    IF self.cls = "Line" THEN LineDraw(self)
    ELSE IF self.cls = "Circle" THEN CircleDraw(self)
    ELSE IF self.cls = "Triangle" THEN TriangleDraw(self)
    ELSE IF self.cls = "Polygon" THEN PolygonDraw(self)
    ELSE IF self.cls = "Rectangle" THEN RectangleDraw(self)
    ELSE IF self.cls = "Ellipse" THEN EllipseDraw(self)
    ELSE IF self.cls = "BezierCurve" THEN BezierDraw(self)
    ELSE <<>>

\* None where a position (x, y) can stand.
NoPos == <<>>

\* The state of the application when its loop starts.
AppStart ==
    [running |-> TRUE,
     selected_tool |-> None,
     selected_polygon_sides |-> 5,
     current_algorithm_panel |-> None,
     drawing |-> FALSE,
     start_pos |-> NoPos,
     current_mouse_pos |-> NoPos,
     points |-> <<>>,
     drawn_shapes |-> <<>>,
     raised |-> None,
     at |-> "frame"]

\* No event processed yet.
NoEvent == [type |-> "None"]

Fresh ==
    /\ shape = NoShape
    /\ exc = None
    /\ calls = <<>>
    /\ surface = {}
    /\ pc = "new"
    /\ surface2 = {}
    /\ app = AppStart
    /\ event = NoEvent

New ==
    /\ pc = "new"
    /\ LET r == Construct(args)
       IN  /\ shape' = r.shape
           /\ exc' = r.exc
           /\ pc' = IF r.exc = None THEN "constructed" ELSE "failed"
    /\ UNCHANGED <<args, calls, surface, surface2, app, event>>

Draw ==
    /\ pc = "constructed"
    /\ IF R(0) \in DrawDivisors(shape)
       THEN /\ exc' = "ZeroDivisionError"
            /\ UNCHANGED <<calls, surface>>
       ELSE /\ calls' = DrawCalls(shape)
            /\ surface' = surface \cup Image(DrawCalls(shape))
            /\ exc' = exc
    /\ pc' = "drawn"
    /\ UNCHANGED <<args, shape, surface2, app, event>>

\* The shape that was drawn onto surface is drawn again, onto surface2.
DrawTwin ==
    /\ pc = "drawn"
    /\ exc = None
    /\ surface2' = surface2 \cup Image(DrawCalls(shape))
    /\ pc' = "redrawn"
    /\ UNCHANGED <<args, shape, exc, calls, surface, app, event>>

Next == New \/ Draw

(***************************************************************************)
(* The explored arguments, one initial predicate per class.                *)
(***************************************************************************)
LineCoord == {Rat(n, LineDen) : n \in (-LineMax * LineDen)..(LineMax * LineDen)}

IntCoord == {R(n) : n \in (-IntMax)..IntMax}

\* Sequences of n points of the grid lo..hi.
PointSeqs(n, lo, hi) == [1..n -> (lo..hi) \X (lo..hi)]

\* The axis-aligned square [(a,b), (a+s,b), (a+s,b+s), (a,b+s)].
Square(a, b, s) == <<<<a, b>>, <<a + s, b>>, <<a + s, b + s>>, <<a, b + s>>>>

\* Lines with integer endpoints, and with endpoints between the pixels.
InitLine ==
    /\ \E C \in {IntCoord, LineCoord} :
         \E x1 \in C, y1 \in C, x2 \in C, y2 \in C, a \in {"dda", "bresenham"} :
            args = [cls |-> "Line", start_pos |-> <<x1, y1>>,
                    end_pos |-> <<x2, y2>>, algorithm |-> a]
    /\ Fresh

InitCircle ==
    /\ \E x0 \in (-CircleMaxC)..CircleMaxC, y0 \in (-CircleMaxC)..CircleMaxC,
          r \in (-1)..CircleMaxR, f \in BOOLEAN :
            args = [cls |-> "Circle", center |-> <<x0, y0>>, radius |-> R(r),
                    filled |-> f, algorithm |-> "bresenham"]
    /\ Fresh

InitRect(cls, m) ==
    /\ \E x \in 0..1, y \in 0..1, w \in (-1)..m, h \in (-1)..m, f \in BOOLEAN :
            args = [cls |-> cls,
                    rect |-> [x |-> x, y |-> y, width |-> w, height |-> h],
                    filled |-> f]
    /\ Fresh

InitRectangle == InitRect("Rectangle", RectMax)

InitFromPoints ==
    /\ \E p1 \in ((-FromMax)..FromMax) \X ((-FromMax)..FromMax),
          p2 \in ((-FromMax)..FromMax) \X ((-FromMax)..FromMax), f \in BOOLEAN :
            args = [cls |-> "Rectangle.from_points", p1 |-> p1, p2 |-> p2,
                    filled |-> f]
    /\ Fresh

InitEllipse == InitRect("Ellipse", EllipseMax)

\* Boxes much wider than high, both half-axes at least 1.
InitEllipseWide ==
    /\ \E x \in 0..1, y \in 0..1, w \in 2..WideMax, h \in 2..5, f \in BOOLEAN :
            args = [cls |-> "Ellipse",
                    rect |-> [x |-> x, y |-> y, width |-> w, height |-> h],
                    filled |-> f]
    /\ Fresh

InitTriangle ==
    /\ \E ps \in PointSeqs(3, -1, TriMax), f \in BOOLEAN :
            args = [cls |-> "Triangle", points |-> ps, filled |-> f]
    /\ Fresh

\* Triangles and quadrilaterals on a grid, and the squares of every side.
InitPolygon ==
    /\ \/ \E n \in 3..4 : \E ps \in PointSeqs(n, 0, PolyMax), f \in BOOLEAN :
            args = [cls |-> "Polygon", points |-> ps, filled |-> f]
       \/ \E a \in 0..1, b \in 0..1, sd \in 1..SquareMax, f \in BOOLEAN :
            args = [cls |-> "Polygon", points |-> Square(a, b, sd), filled |-> f]
    /\ Fresh

InitBezier ==
    /\ \E cp \in PointSeqs(4, 0, BezMax),
          n \in (-1)..BezMaxSteps \cup {DefaultSteps} :
            args = [cls |-> "BezierCurve", control_points |-> cp, steps |-> n]
    /\ Fresh

\* Point lists of every length 0..MaxPoints, for the constructors that
\* check the number of points.
InitCount ==
    /\ \E n \in 0..MaxPoints : \E ps \in PointSeqs(n, 0, 1) :
         \/ \E c \in {"Triangle", "Polygon"}, f \in BOOLEAN :
              args = [cls |-> c, points |-> ps, filled |-> f]
         \/ \E k \in {1, DefaultSteps} :
              args = [cls |-> "BezierCurve", control_points |-> ps, steps |-> k]
    /\ Fresh

SpecLine == InitLine /\ [][Next]_vars

SpecCircle == InitCircle /\ [][Next]_vars

SpecRectangle == InitRectangle /\ [][Next]_vars

SpecEllipse == InitEllipse /\ [][Next]_vars

SpecEllipseWide == InitEllipseWide /\ [][Next]_vars

SpecFromPoints == InitFromPoints /\ [][Next]_vars

SpecTriangle == InitTriangle /\ [][Next]_vars

SpecPolygon == InitPolygon /\ [][Next]_vars

SpecBezier == InitBezier /\ [][Next]_vars

SpecCount == InitCount /\ [][Next]_vars

Init ==
    \/ InitLine
    \/ InitCircle
    \/ InitRectangle
    \/ InitEllipse
    \/ InitFromPoints
    \/ InitTriangle
    \/ InitPolygon
    \/ InitBezier
    \/ InitCount

Spec == Init /\ [][Next]_vars

\* Every shape drawn twice, onto two blank buffers.
NextTwice == New \/ Draw \/ DrawTwin

SpecTwice == Init /\ [][NextTwice]_vars

(***************************************************************************)
(* The application: the event loop of src/main.py.                         *)
(*                                                                         *)
(* A frame polls the pointer (BeginFrame), processes the queued events one *)
(* by one (HandleEvent) and renders (EndFrame).  An exception nothing      *)
(* catches ends the program: app.raised keeps it and no step follows.      *)
(* The colour and the line and circle algorithms chosen in their panels    *)
(* are only handed to the constructors and are not part of the state; an   *)
(* event on one of their buttons is an event that hits no tool and no      *)
(* side-count button.                                                      *)
(***************************************************************************)
CANVAS_WIDTH == SCREEN_WIDTH - LEFT_PANEL_WIDTH - RIGHT_PANEL_WIDTH

\* The tools of ToolPanel and the options of PolygonSidesPanel.
TwoPointTools == {"line", "rectangle", "circle", "ellipse"}

MultiPointTools == {"triangle", "polygon", "curve"}

SidesOptions == {3, 4, 5, 6, 8}

\* The canvas positions explored: the two ends of the first canvas row.
CanvasPos == {<<0, 0>>, <<CANVAS_WIDTH - 1, 0>>}

\* The events explored.  tool is the action of the tool-panel button under
\* event.pos (None when there is none), sides the option of the side-count
\* button under event.pos (0 when there is none); the two panels do not
\* overlap.
Events ==
    {[type |-> "MOUSEBUTTONDOWN", button |-> b, tool |-> t, sides |-> 0] :
        b \in {1, 3}, t \in {None, "clear"} \cup TwoPointTools \cup MultiPointTools}
    \cup {[type |-> "MOUSEBUTTONDOWN", button |-> b, tool |-> None, sides |-> n] :
        b \in {1, 3}, n \in SidesOptions}
    \cup {[type |-> "MOUSEBUTTONUP", button |-> b, tool |-> None, sides |-> 0] :
        b \in {1, 3}}
    \cup {[type |-> t, button |-> 0, tool |-> None, sides |-> 0] :
        t \in {"MOUSEMOTION", "QUIT"}}

\* The parameters of the constructors main.py calls.
Parameters(callee) ==
    IF callee = "Line"
    THEN {"start_pos", "end_pos", "color", "filled", "algorithm"}
    ELSE IF callee = "Circle.from_points"
    THEN {"p1", "p2", "color", "filled", "algorithm"}
    ELSE IF callee \in {"Rectangle.from_points", "Ellipse.from_points"}
    THEN {"p1", "p2", "color", "filled"}
    ELSE IF callee \in {"Triangle", "Polygon"}
    THEN {"points", "color", "filled"}
    ELSE {"control_points", "color", "filled", "steps"}

\* a.cls(..., keyword = value for each of keywords): a keyword that is no
\* parameter of the callee raises TypeError before the callee runs.
Call(a, keywords) ==
    IF ~(keywords \subseteq Parameters(a.cls)) THEN Raises("TypeError")
    ELSE Construct(a)

\* The arguments main.py hands over for a drag of a two-point tool from p1
\* to p2 (the algorithm is the panels' initial choice).
TwoPointArgs(tool, p1, p2) ==
    IF tool = "line"
    THEN [cls |-> "Line", start_pos |-> <<R(p1[1]), R(p1[2])>>,
          end_pos |-> <<R(p2[1]), R(p2[2])>>, algorithm |-> "pygame"]
    ELSE IF tool = "rectangle"
    THEN [cls |-> "Rectangle.from_points", p1 |-> p1, p2 |-> p2,
          filled |-> FALSE]
    ELSE IF tool = "circle"
    THEN [cls |-> "Circle.from_points", p1 |-> p1, p2 |-> p2,
          filled |-> FALSE, algorithm |-> "pygame"]
    ELSE [cls |-> "Ellipse.from_points", p1 |-> p1, p2 |-> p2,
          filled |-> FALSE]

\* The arguments main.py hands over for the clicked points of a multi-point
\* tool.
MultiPointArgs(tool, points) ==
    IF tool = "triangle"
    THEN [cls |-> "Triangle", points |-> points, filled |-> FALSE]
    ELSE IF tool = "polygon"
    THEN [cls |-> "Polygon", points |-> points, filled |-> FALSE]
    ELSE [cls |-> "BezierCurve", control_points |-> points,
          steps |-> DefaultSteps]

\* The keywords of the call for a tool: width=2 always, algorithm= for the
\* line and the circle.
Keywords(tool) ==
    IF tool \in {"line", "circle"} THEN {"width", "algorithm"} ELSE {"width"}

\* fig.Line(start_pos, end_pos, selected_color, width=2, algorithm=...) and
\* the from_points calls of the other two-point tools.
TwoPointCall(tool, p1, p2) == Call(TwoPointArgs(tool, p1, p2), Keywords(tool))

\* fig.Triangle(points, selected_color, width=2) and the like.
MultiPointCall(tool, points) == Call(MultiPointArgs(tool, points), Keywords(tool))

\* tool_panel.handle_event(event): a button answers a press of any mouse
\* button on it.
ToolAction(e) == IF e.type = "MOUSEBUTTONDOWN" THEN e.tool ELSE None

\* if event.type == pygame.QUIT: running = False
HandleQuit(a, e) ==
    IF e.type = "QUIT" THEN [a EXCEPT !.running = FALSE] ELSE a

\* Mutant: choosing a tool persists the pending points as shapes.
HandleToolPersistsPoints(a, e) ==
    IF ToolAction(e) = None THEN a
    ELSE IF ToolAction(e) = "clear"
    THEN [a EXCEPT !.drawn_shapes = <<>>, !.points = <<>>]
    ELSE [a EXCEPT !.selected_tool = ToolAction(e),
                   !.drawn_shapes = a.drawn_shapes \o a.points,
                   !.points = <<>>,
                   !.drawing = FALSE,
                   !.start_pos = NoPos,
                   !.current_algorithm_panel =
                       IF ToolAction(e) \in {"line", "circle", "polygon"}
                       THEN ToolAction(e) ELSE None]

\* Mutant: choosing a tool does not cancel the drag (drawing and start_pos
\* are kept).
HandleToolKeepsDrawing(a, e) ==
    IF ToolAction(e) = None THEN a
    ELSE IF ToolAction(e) = "clear"
    THEN [a EXCEPT !.drawn_shapes = <<>>, !.points = <<>>]
    ELSE [a EXCEPT !.selected_tool = ToolAction(e),
                   !.points = <<>>,
                   !.current_algorithm_panel =
                       IF ToolAction(e) \in {"line", "circle", "polygon"}
                       THEN ToolAction(e) ELSE None]

\* The tool-panel part of the handler: 'clear' or the choice of a tool.
HandleTool(a, e) ==
    IF ToolAction(e) = None THEN a
    ELSE IF ToolAction(e) = "clear"
    THEN [a EXCEPT !.drawn_shapes = <<>>, !.points = <<>>]
    ELSE [a EXCEPT !.selected_tool = ToolAction(e),
                   !.points = <<>>,
                   !.drawing = FALSE,
                   !.start_pos = NoPos,
                   !.current_algorithm_panel =
                       IF ToolAction(e) \in {"line", "circle", "polygon"}
                       THEN ToolAction(e) ELSE None]

\* The side-count panel gets the event only while it is shown.
HandleSides(a, e) ==
    IF a.current_algorithm_panel = "polygon" /\ e.type = "MOUSEBUTTONDOWN"
          /\ e.sides # 0
    THEN [a EXCEPT !.selected_polygon_sides = e.sides]
    ELSE a

\* Whether the clicked points complete the gesture of the tool.
Completes(a, n) ==
    \/ a.selected_tool = "triangle" /\ n = 3
    \/ a.selected_tool = "curve" /\ n = 4
    \/ a.selected_tool = "polygon" /\ n = a.selected_polygon_sides

\* A press of the left button with the pointer on the canvas.
CanvasDown(a) ==
    IF a.selected_tool \in TwoPointTools
    THEN [a EXCEPT !.drawing = TRUE, !.start_pos = a.current_mouse_pos]
    ELSE IF a.selected_tool \in MultiPointTools
    THEN LET pts == Append(a.points, a.current_mouse_pos)
         IN  IF ~Completes(a, Len(pts)) THEN [a EXCEPT !.points = pts]
             ELSE LET r == MultiPointCall(a.selected_tool, pts)
                  IN  IF r.exc # None
                      THEN [a EXCEPT !.points = pts, !.raised = r.exc]
                      ELSE [a EXCEPT !.drawn_shapes = Append(@, r.shape),
                                     !.points = <<>>]
    ELSE a

\* A release of the left button with the pointer on the canvas.
CanvasUp(a) ==
    IF a.drawing /\ a.selected_tool # None /\ a.start_pos # NoPos
    THEN LET r == TwoPointCall(a.selected_tool, a.start_pos,
                               a.current_mouse_pos)
         IN  IF r.exc # None THEN [a EXCEPT !.raised = r.exc]
             ELSE [a EXCEPT !.drawn_shapes = Append(@, r.shape),
                            !.drawing = FALSE, !.start_pos = NoPos]
    ELSE [a EXCEPT !.drawing = FALSE, !.start_pos = NoPos]

\* The canvas part of the handler: only with the polled pointer position on
\* the canvas (is_mouse_on_canvas).
HandleCanvas(a, e) ==
    IF a.current_mouse_pos = NoPos THEN a
    ELSE IF e.type = "MOUSEBUTTONDOWN" /\ e.button = 1 THEN CanvasDown(a)
    ELSE IF e.type = "MOUSEBUTTONUP" /\ e.button = 1 THEN CanvasUp(a)
    ELSE a

\* The body of "for event in pygame.event.get()" for the event e.
Handled(a, e) == HandleCanvas(HandleSides(HandleTool(HandleQuit(a, e), e), e), e)

\* The preview of the drag in progress.
Preview(a) ==
    IF a.drawing /\ a.selected_tool # None /\ a.start_pos # NoPos
          /\ a.current_mouse_pos # NoPos
    THEN LET r == TwoPointCall(a.selected_tool, a.start_pos,
                               a.current_mouse_pos)
         IN  IF r.exc # None THEN [a EXCEPT !.raised = r.exc] ELSE a
    ELSE a

\* canvas_surface after fill(WHITE) and shape.draw of every persisted shape.
Redrawn(shapes) == UNION {Image(DrawCalls(shapes[i])) : i \in DOMAIN shapes}

\* The top of the loop body: the pointer is polled.
BeginFrame ==
    /\ app.at = "frame" /\ app.raised = None
    /\ \E m \in CanvasPos \cup {NoPos} :
          app' = [app EXCEPT !.current_mouse_pos = m, !.at = "events"]
    /\ event' = NoEvent
    /\ UNCHANGED <<args, shape, exc, calls, surface, pc, surface2>>

\* One event of the queue is processed.
HandleEvent ==
    /\ app.at = "events" /\ app.raised = None
    /\ Len(app.points) < MaxPending
    /\ \E e \in Events :
          /\ app' = Handled(app, e)
          /\ event' = e
    /\ UNCHANGED <<args, shape, exc, calls, surface, pc, surface2>>

\* The queue is empty: preview, redraw, and the loop condition.
EndFrame ==
    /\ app.at = "events" /\ app.raised = None
    /\ LET a == Preview(app)
       IN  IF a.raised # None
           THEN app' = a /\ UNCHANGED surface
           ELSE /\ app' = [a EXCEPT !.at = IF a.running THEN "frame" ELSE "exit"]
                /\ surface' = Redrawn(a.drawn_shapes)
    /\ event' = NoEvent
    /\ UNCHANGED <<args, shape, exc, calls, pc, surface2>>

NextMain == BeginFrame \/ HandleEvent \/ EndFrame

InitMain == args = NoShape /\ Fresh

SpecMain == InitMain /\ [][NextMain]_vars

(***************************************************************************)
(* Claims about the line rasterizers (checked under SpecLine).             *)
(***************************************************************************)
IntEndpoints(l) ==
    /\ RIsInt(l.start_pos[1]) /\ RIsInt(l.start_pos[2])
    /\ RIsInt(l.end_pos[1]) /\ RIsInt(l.end_pos[2])

DrawnLine(a) ==
    pc = "drawn" /\ exc = None /\ shape.cls = "Line" /\ shape.algorithm = a

Sgn(n) == IF n > 0 THEN 1 ELSE IF n < 0 THEN -1 ELSE 0

\* The integer endpoints of the drawn line and its major axis (1 = x, 2 = y).
LX1 == shape.start_pos[1][1]
LY1 == shape.start_pos[2][1]
LX2 == shape.end_pos[1][1]
LY2 == shape.end_pos[2][1]
Major == IF Abs(LY2 - LY1) > Abs(LX2 - LX1) THEN 2 ELSE 1
Minor == 3 - Major
MajorLen == Max2(Abs(LX2 - LX1), Abs(LY2 - LY1))
MinorLen == Min2(Abs(LX2 - LX1), Abs(LY2 - LY1))
StartPx == <<LX1, LY1>>
EndPx == <<LX2, LY2>>

\* C1: for integer endpoints Line._draw_bresenham writes exactly
\* max(|x2-x1|, |y2-y1|) + 1 pixels, all distinct, and the major-axis
\* coordinate of consecutive pixels advances by exactly one step from the
\* start toward the end.
C1_BresenhamCount ==
    (DrawnLine("bresenham") /\ IntEndpoints(shape)) =>
        /\ Len(calls) = MajorLen + 1
        /\ \A i, j \in DOMAIN calls : i # j => calls[i] # calls[j]
        /\ \A i \in 1..(Len(calls) - 1) :
              calls[i + 1][Major] - calls[i][Major]
                  = Sgn(EndPx[Major] - StartPx[Major])

C1_Witness ==
    /\ DrawnLine("bresenham") /\ IntEndpoints(shape)
    /\ LX1 = 0 /\ LY1 = 1 /\ LX2 = -2 /\ LY2 = -4
    /\ Len(calls) = 6

\* C2 (as claimed): for every segment, the Bresenham and the DDA pixel runs
\* start at the rounded start point and end at the rounded end point.
C2_EndpointsRounded ==
    (DrawnLine("bresenham") \/ DrawnLine("dda")) =>
        /\ calls[1] = <<RRound(shape.start_pos[1]), RRound(shape.start_pos[2])>>
        /\ calls[Len(calls)]
              = <<RRound(shape.end_pos[1]), RRound(shape.end_pos[2])>>

\* C3: for integer endpoints the Bresenham pixel at major-axis offset k has
\* a minor-axis offset n with 2*|n*dx - k*dy| <= dx; (0,0)->(5,0) gives
\* (0,0)..(5,0) and (0,0)->(3,3) gives (0,0),(1,1),(2,2),(3,3).
C3_BresenhamHalfPixel ==
    (DrawnLine("bresenham") /\ IntEndpoints(shape)) =>
        /\ \A i \in DOMAIN calls :
              LET k == Abs(calls[i][Major] - StartPx[Major])
                  n == (calls[i][Minor] - StartPx[Minor])
                         * Sgn(EndPx[Minor] - StartPx[Minor])
              IN  /\ calls[i][Minor] - StartPx[Minor]
                        = n * Sgn(EndPx[Minor] - StartPx[Minor])
                  /\ 2 * Abs(n * MajorLen - k * MinorLen) <= MajorLen
        /\ (StartPx = <<0, 0>> /\ EndPx = <<5, 0>>) =>
              calls = <<<<0, 0>>, <<1, 0>>, <<2, 0>>, <<3, 0>>, <<4, 0>>, <<5, 0>>>>
        /\ (StartPx = <<0, 0>> /\ EndPx = <<3, 3>>) =>
              calls = <<<<0, 0>>, <<1, 1>>, <<2, 2>>, <<3, 3>>>>

C3_Witness ==
    /\ DrawnLine("bresenham") /\ IntEndpoints(shape)
    /\ StartPx = <<0, 0>> /\ EndPx = <<5, 2>>
    /\ calls = <<<<0, 0>>, <<1, 0>>, <<2, 1>>, <<3, 1>>, <<4, 2>>, <<5, 2>>>>

(***************************************************************************)
(* Claims about the circle rasterizer (checked under SpecCircle).          *)
(***************************************************************************)
DrawnOutlineCircle ==
    /\ pc = "drawn" /\ exc = None /\ shape.cls = "Circle"
    /\ ~shape.filled /\ shape.radius >= 1

\* The written pixels relative to the centre.
RelPixels == {<<p[1] - shape.center[1], p[2] - shape.center[2]>> : p \in Image(calls)}

\* C6: for r >= 1 the outline pixels, relative to the centre, are symmetric
\* under (x,y)->(y,x), (x,y)->(-x,y) and (x,y)->(x,-y).
C6_CircleSymmetric ==
    DrawnOutlineCircle =>
        \A p \in RelPixels :
            /\ <<p[2], p[1]>> \in RelPixels
            /\ <<-p[1], p[2]>> \in RelPixels
            /\ <<p[1], -p[2]>> \in RelPixels

C6_Witness ==
    /\ DrawnOutlineCircle /\ shape.radius = 5 /\ shape.center = <<1, -1>>
    /\ {<<3, 4>>, <<4, 3>>, <<-3, 4>>, <<4, -3>>, <<0, 5>>} \subseteq RelPixels

\* round(sqrt(n)) for an integer n >= 0.
RoundSqrt(n) ==
    CHOOSE m \in 0..n :
        /\ m = 0 \/ (2 * m - 1) * (2 * m - 1) <= 4 * n
        /\ 4 * n < (2 * m + 1) * (2 * m + 1)

\* C7: for r >= 1 every outline pixel (x, y) relative to the centre has
\* |round(sqrt(x*x + y*y)) - r| <= 1.
C7_CircleRadius ==
    DrawnOutlineCircle =>
        \A p \in RelPixels :
            Abs(RoundSqrt(p[1] * p[1] + p[2] * p[2]) - shape.radius) <= 1

C7_Witness ==
    /\ DrawnOutlineCircle /\ shape.radius = 5 /\ shape.center = <<0, 0>>
    /\ <<3, 4>> \in Image(calls) /\ <<5, 1>> \in Image(calls)
    /\ Cardinality(Image(calls)) = 28

(***************************************************************************)
(* Claims about the polygon and triangle fills (SpecPolygon, SpecTriangle).*)
(***************************************************************************)
DrawnFilled(c) ==
    pc = "drawn" /\ exc = None /\ shape.cls = c /\ shape.filled

IsSquare(points) ==
    /\ Len(points) = 4
    /\ points[3][1] > points[1][1]
    /\ points = Square(points[1][1], points[1][2], points[3][1] - points[1][1])

\* The set_at calls on row y.
RowCalls(y) == {i \in DOMAIN calls : calls[i][2] = y}

\* C4 (as claimed): the scan-line fill of an axis-aligned square writes, for
\* every row from the minimum to the maximum vertex y inclusive, exactly one
\* contiguous span covering the full x range of the square.
C4_SquareRows ==
    (DrawnFilled("Polygon") /\ IsSquare(shape.points)) =>
        \A y \in shape.points[1][2]..shape.points[3][2] :
            /\ {calls[i] : i \in RowCalls(y)}
                 = {<<x, y>> : x \in shape.points[1][1]..shape.points[3][1]}
            /\ Cardinality(RowCalls(y))
                 = shape.points[3][1] - shape.points[1][1] + 1

\* C5 (as claimed): for every triple of integer vertices, the filled triangle
\* and the scan-line polygon fill of the same three points write the same
\* set of pixels.
C5_TriangleAsPolygon ==
    DrawnFilled("Triangle") =>
        Image(calls) = Image(PolygonDrawFilled(Polygon(shape.points, TRUE)))

(***************************************************************************)
(* Claims about BezierCurve (SpecBezier), the constructors (SpecCount) and *)
(* draw() of every shape (Spec).                                           *)
(***************************************************************************)
\* C8: for steps >= 1 and four integer control points P0..P3,
\* BezierCurve.points has exactly steps + 1 entries, the first P0 and the
\* last P3; with steps = 1 it is exactly [P0, P3].
C8_BezierEndpoints ==
    (pc \in {"constructed", "drawn"} /\ shape.cls = "BezierCurve"
        /\ shape.steps >= 1) =>
        /\ Len(shape.points) = shape.steps + 1
        /\ shape.points[1] = shape.control_points[1]
        /\ shape.points[Len(shape.points)] = shape.control_points[4]
        /\ shape.steps = 1 =>
              shape.points = <<shape.control_points[1], shape.control_points[4]>>

C8_Witness ==
    /\ pc = "constructed" /\ shape.cls = "BezierCurve"
    /\ shape.steps = DefaultSteps /\ Len(shape.points) = 21
    /\ shape.control_points = <<<<0, 0>>, <<0, 1>>, <<1, 1>>, <<1, 0>>>>
    /\ shape.points[1] = <<0, 0>> /\ shape.points[21] = <<1, 0>>

\* The number of points handed to the constructor.
NPoints == IF args.cls = "BezierCurve" THEN Len(args.control_points)
           ELSE Len(args.points)

Rejected == pc = "failed" /\ exc = "ValueError" /\ shape = NoShape

Accepted == pc \in {"constructed", "drawn"} /\ exc = None /\ shape.cls = args.cls

\* C9: once the constructor has run, Triangle with a number of points other
\* than 3, Polygon with fewer than 3 and BezierCurve (steps >= 1) with a
\* number of control points other than 4 have raised ValueError and yielded
\* no shape; with exactly 3, at least 3 and exactly 4 points they are
\* accepted.
C9_PointCounts ==
    (pc # "new" /\ args.cls \in {"Triangle", "Polygon", "BezierCurve"}) =>
        /\ args.cls = "Triangle" =>
              IF NPoints # 3 THEN Rejected ELSE Accepted
        /\ args.cls = "Polygon" =>
              IF NPoints < 3 THEN Rejected ELSE Accepted
        /\ (args.cls = "BezierCurve" /\ args.steps >= 1) =>
              IF NPoints # 4 THEN Rejected ELSE Accepted

C9_Witness ==
    /\ Rejected /\ args.cls = "Triangle" /\ NPoints = 4

\* C10: draw() of a constructed shape (outline or filled, degenerate or
\* not) raises nothing: no division it performs has a zero divisor.
C10_DrawNeverRaises ==
    /\ pc = "drawn" => exc = None
    /\ pc = "constructed" => ~(R(0) \in DrawDivisors(shape))

C10_Witness ==
    /\ pc = "drawn" /\ exc = None
    /\ shape.cls = "Triangle" /\ shape.filled
    /\ shape.points = <<<<0, 1>>, <<2, 1>>, <<1, 1>>>>
    /\ calls # <<>>

(***************************************************************************)
(* Degenerate lines and circles (SpecLine, SpecCircle).                    *)
(***************************************************************************)
\* C11: a zero-length segment (start = end) drawn with DDA or Bresenham
\* writes exactly one pixel, the start point (its coordinates truncated by
\* int() when they are not integers).
C11_ZeroLength ==
    ((DrawnLine("dda") \/ DrawnLine("bresenham"))
        /\ shape.start_pos = shape.end_pos) =>
        calls = <<<<RInt(shape.start_pos[1]), RInt(shape.start_pos[2])>>>>

C11_Witness ==
    /\ DrawnLine("dda")
    /\ shape.start_pos = <<R(2), R(-3)>> /\ shape.end_pos = <<R(2), R(-3)>>
    /\ calls = <<<<2, -3>>>>

\* C12: a Bresenham circle with radius <= 0 writes exactly one pixel, the
\* centre, in outline and in filled mode.
C12_DegenerateCircle ==
    (pc = "drawn" /\ exc = None /\ shape.cls = "Circle"
        /\ shape.algorithm = "bresenham" /\ ~RLess(R(0), args.radius)) =>
        calls = <<args.center>>

C12_Witness ==
    /\ pc = "drawn" /\ shape.cls = "Circle" /\ shape.filled
    /\ args.radius = R(0) /\ args.center = <<1, -1>>
    /\ calls = <<<<1, -1>>>>

(***************************************************************************)
(* Degenerate ellipses (SpecEllipse).                                      *)
(***************************************************************************)
DrawnEllipse == pc = "drawn" /\ exc = None /\ shape.cls = "Ellipse"

\* The half-axes Ellipse.draw computes from the normalized box.
HalfX == shape.rect.width \div 2
HalfY == shape.rect.height \div 2

\* C13 (as claimed): an Ellipse either of whose half-axes is 0 writes
\* exactly one pixel.
C13_HalfAxisZeroOnePixel ==
    (DrawnEllipse /\ (HalfX = 0 \/ HalfY = 0)) => Len(calls) = 1

\* C13 (amended): an Ellipse either of whose half-axes is 0 writes exactly
\* one pixel when its box is at least 1x1, and no pixel when the width or
\* the height of its box is 0.
C13_HalfAxisZero ==
    (DrawnEllipse /\ (HalfX = 0 \/ HalfY = 0)) =>
        IF shape.rect.width >= 1 /\ shape.rect.height >= 1
        THEN Len(calls) = 1
        ELSE Len(calls) = 0

C13_Witness ==
    /\ DrawnEllipse /\ shape.rect.width = 1 /\ shape.rect.height = 4
    /\ HalfX = 0 /\ HalfY = 2 /\ Len(calls) = 1

\* C14: Ellipse.draw on a box whose width or height is smaller than 1
\* writes no pixel and leaves the buffer unchanged; on a box of at least 1x1
\* whose half-axis rx or ry is <= 0 it writes only the centre pixel
\* (x + width // 2, y + height // 2).
C14_EllipseDegenerate ==
    DrawnEllipse =>
        IF shape.rect.width < 1 \/ shape.rect.height < 1
        THEN calls = <<>> /\ surface = {}
        ELSE (HalfX <= 0 \/ HalfY <= 0) =>
                /\ calls = <<<<shape.rect.x + HalfX, shape.rect.y + HalfY>>>>
                /\ surface = {<<shape.rect.x + HalfX, shape.rect.y + HalfY>>}

C14_Witness ==
    /\ DrawnEllipse /\ shape.filled
    /\ shape.rect = [x |-> 1, y |-> 0, width |-> 0, height |-> 5]
    /\ calls = <<>> /\ surface = {}

(***************************************************************************)
(* Rectangle.from_points (SpecFromPoints).                                 *)
(***************************************************************************)
FromPoints ==
    pc \in {"constructed", "drawn"} /\ args.cls = "Rectangle.from_points"

\* C19: Rectangle.from_points(p1, p2) stores x = min(x1, x2),
\* y = min(y1, y2), width = |x1 - x2|, height = |y1 - y2|, so width and
\* height are >= 0, and from_points(p2, p1) yields the same rectangle.
C19_FromPointsNormalized ==
    FromPoints =>
        /\ exc = None /\ shape.cls = "Rectangle"
        /\ shape.rect.x = Min2(args.p1[1], args.p2[1])
        /\ shape.rect.y = Min2(args.p1[2], args.p2[2])
        /\ shape.rect.width = Abs(args.p1[1] - args.p2[1])
        /\ shape.rect.height = Abs(args.p1[2] - args.p2[2])
        /\ shape.rect.width >= 0 /\ shape.rect.height >= 0
        /\ shape = Construct([args EXCEPT !.p1 = args.p2, !.p2 = args.p1]).shape

C19_Witness ==
    /\ FromPoints /\ args.p1 = <<2, -1>> /\ args.p2 = <<-1, 1>>
    /\ shape.rect = [x |-> -1, y |-> -1, width |-> 3, height |-> 2]

(***************************************************************************)
(* Vertices on a scanline of the polygon fill (SpecPolygon).               *)
(***************************************************************************)
\* The vertices before and after vertex i.
PrevVertex(points, i) == points[IF i = 1 THEN Len(points) ELSE i - 1]
NextVertex(points, i) == points[(i % Len(points)) + 1]

\* How many of the two edges incident to vertex i contribute an intersection
\* to the scanline through vertex i.
IncidentCrossings(points, i) ==
    (IF Crosses(PrevVertex(points, i), points[i], points[i][2]) THEN 1 ELSE 0)
    + (IF Crosses(points[i], NextVertex(points, i), points[i][2]) THEN 1 ELSE 0)

\* How many of the two neighbours of vertex i lie on a later row.
NeighboursBelow(points, i) ==
    (IF PrevVertex(points, i)[2] > points[i][2] THEN 1 ELSE 0)
    + (IF NextVertex(points, i)[2] > points[i][2] THEN 1 ELSE 0)

\* C20 (as claimed): for every vertex of a filled polygon, exactly one of
\* its two incident edges contributes an intersection to the scanline
\* through the vertex.
C20_VertexCountedOnce ==
    DrawnFilled("Polygon") =>
        \A i \in DOMAIN shape.points : IncidentCrossings(shape.points, i) = 1

\* C20 (amended): the number of incident edges that contribute an
\* intersection to the scanline through a vertex is the number of its two
\* neighbours with a strictly greater y: exactly one when one neighbour has
\* a greater y and the other has not, two at a vertex whose neighbours both
\* have a greater y, none at a vertex neither of whose neighbours has.
C20_VertexCountedByNeighbours ==
    DrawnFilled("Polygon") =>
        \A i \in DOMAIN shape.points :
            IncidentCrossings(shape.points, i) = NeighboursBelow(shape.points, i)

C20_Witness ==
    /\ DrawnFilled("Polygon")
    /\ shape.points = <<<<0, 0>>, <<2, 1>>, <<0, 2>>>>
    /\ IncidentCrossings(shape.points, 1) = 2
    /\ IncidentCrossings(shape.points, 2) = 1
    /\ IncidentCrossings(shape.points, 3) = 0

SameOrOneMore(s, t) ==
    \/ s = t
    \/ Len(s) = Len(t) + 1 /\ SubSeq(s, 1, Len(t)) = t

LeftOnCanvas(e, type) ==
    /\ e # NoEvent /\ e.type = type /\ e.button = 1
    /\ e.tool = None /\ e.sides = 0
    /\ app.current_mouse_pos # NoPos

\* C17 (as claimed): a left mouse-up on the canvas that ends a drag of a
\* two-point tool appends one shape built from the press and release
\* positions, and the Nth left click of a multi-point tool appends one shape
\* built from the N clicked points and empties the pending-point list.
C17_ShapeAtCompletion ==
    [][/\ (LeftOnCanvas(event', "MOUSEBUTTONUP") /\ app.drawing
            /\ app.selected_tool \in TwoPointTools /\ app.start_pos # NoPos) =>
              app'.drawn_shapes
                 = Append(app.drawn_shapes,
                          Construct(TwoPointArgs(app.selected_tool, app.start_pos,
                                                 app.current_mouse_pos)).shape)
       /\ (LeftOnCanvas(event', "MOUSEBUTTONDOWN")
            /\ app.selected_tool \in MultiPointTools
            /\ Completes(app, Len(app.points) + 1)) =>
              /\ app'.drawn_shapes
                    = Append(app.drawn_shapes,
                             Construct(MultiPointArgs(app.selected_tool,
                                 Append(app.points, app.current_mouse_pos))).shape)
              /\ app'.points = <<>>]_vars

\* C18 (as claimed): once an event that selects a tool (a tool-panel action
\* other than 'clear') has been processed, the pending-point list is empty,
\* drawing is False and start_pos is None.
C18_ToolDiscardsGesture ==
    (event # NoEvent /\ ToolAction(event) \notin {None, "clear"}) =>
        /\ app.points = <<>>
        /\ app.drawing = FALSE
        /\ app.start_pos = NoPos

(***************************************************************************)
(* The sampled points of the Bezier curve (SpecBezier).                    *)
(***************************************************************************)
\* p is an integer nearest to the rational v: |p - v| <= 1/2.
IsNearest(p, v) == ~RLess(R(1), RAbs(RMul(R(2), RSub(R(p), v))))

\* The exact value B(i / steps) of one coordinate (k = 1 for x, 2 for y).
ExactB(k, i) ==
    Bernstein(RDiv(R(i), R(shape.steps)),
              shape.control_points[1][k], shape.control_points[2][k],
              shape.control_points[3][k], shape.control_points[4][k])

\* C21 (as claimed): each coordinate of every entry of BezierCurve.points is
\* the exact cubic Bernstein value B(i/steps) of the control-point
\* coordinates rounded to the nearest integer, for every i in 0..steps.
C21_BezierNearest ==
    (pc \in {"constructed", "drawn"} /\ shape.cls = "BezierCurve"
        /\ shape.steps >= 1) =>
        \A i \in 0..shape.steps : \A k \in 1..2 :
            IsNearest(shape.points[i + 1][k], ExactB(k, i))

(***************************************************************************)
(* The filled circle against its outline (SpecCircle).                     *)
(***************************************************************************)
\* The pixels the same circle writes in outline mode.
OutlinePixels == Image(DrawCircleBresenham([shape EXCEPT !.filled = FALSE]))

\* The run on the row of the outline pixel p between its mirror images
\* (x0 - |a|, y0 + b) and (x0 + |a|, y0 + b).
MirrorRun(p) ==
    LET a == Abs(p[1] - shape.center[1])
    IN  {<<x, p[2]>> : x \in (shape.center[1] - a)..(shape.center[1] + a)}

\* C22: for r >= 1 the pixels written in filled mode are exactly the union,
\* over the outline pixels, of the horizontal runs between mirrored outline
\* pixels; so every outline pixel is written in filled mode too.
C22_FilledIsOutlineRuns ==
    (pc = "drawn" /\ exc = None /\ shape.cls = "Circle" /\ shape.filled
        /\ shape.radius >= 1) =>
        /\ Image(calls) = UNION {MirrorRun(p) : p \in OutlinePixels}
        /\ OutlinePixels \subseteq Image(calls)

C22_Witness ==
    /\ pc = "drawn" /\ shape.cls = "Circle" /\ shape.filled
    /\ shape.radius = 5 /\ shape.center = <<0, 0>>
    /\ Cardinality(OutlinePixels) = 28
    /\ {<<0, 0>>, <<-4, 3>>, <<4, 3>>, <<3, -4>>, <<5, 1>>} \subseteq Image(calls)
    /\ <<4, 4>> \notin Image(calls)

(***************************************************************************)
(* The parity of the scanline intersections (SpecPolygon).                 *)
(***************************************************************************)
\* C23: in Polygon._draw_filled, for every polygon, self-intersecting ones
\* included, and every scanline of the loop, the number of collected
\* intersections is even: no trailing intersection is left unpaired.
C23_EvenIntersections ==
    DrawnFilled("Polygon") =>
        \A y \in Image(Scanlines(shape.points)) :
            Len(Intersections(shape.points, 1, y)) % 2 = 0

C23_Witness ==
    /\ DrawnFilled("Polygon")
    /\ shape.points = <<<<0, 0>>, <<2, 2>>, <<2, 0>>, <<0, 2>>>>
    /\ Len(Intersections(shape.points, 1, 1)) = 4
    /\ Len(Intersections(shape.points, 1, 2)) = 0
    /\ <<1, 1>> \in Image(calls)

(***************************************************************************)
(* The extent of the ellipse outline (SpecEllipseWide).                    *)
(***************************************************************************)
\* The centre the rasterizer uses.
CentreX == shape.rect.x + shape.rect.width \div 2
CentreY == shape.rect.y + shape.rect.height \div 2

\* C24 (as claimed): for half-axes rx >= 1 and ry >= 1 the outline contains
\* the four axis extreme pixels (xc - rx, yc), (xc + rx, yc), (xc, yc - ry),
\* (xc, yc + ry) and no pixel outside [xc - rx, xc + rx] x [yc - ry, yc + ry].
C24_EllipseExtremes ==
    (DrawnEllipse /\ ~shape.filled /\ HalfX >= 1 /\ HalfY >= 1) =>
        /\ {<<CentreX - HalfX, CentreY>>, <<CentreX + HalfX, CentreY>>,
            <<CentreX, CentreY - HalfY>>, <<CentreX, CentreY + HalfY>>}
              \subseteq Image(calls)
        /\ \A p \in Image(calls) :
              /\ CentreX - HalfX <= p[1] /\ p[1] <= CentreX + HalfX
              /\ CentreY - HalfY <= p[2] /\ p[2] <= CentreY + HalfY

(***************************************************************************)
(* The extent of the rectangle (SpecRectangle).                            *)
(***************************************************************************)
\* C25 (as claimed): Rectangle.draw, outline or filled, writes only pixels
\* (px, py) with x <= px <= x + width - 1 and y <= py <= y + height - 1; a
\* rectangle of zero width or zero height, whose range is empty, writes no
\* pixel.
C25_RectangleInsideBox ==
    (pc = "drawn" /\ exc = None /\ shape.cls = "Rectangle") =>
        \A p \in Image(calls) :
            /\ shape.rect.x <= p[1] /\ p[1] <= shape.rect.x + shape.rect.width - 1
            /\ shape.rect.y <= p[2] /\ p[2] <= shape.rect.y + shape.rect.height - 1

(***************************************************************************)
(* The vertices of the filled triangle (SpecTriangle).                     *)
(***************************************************************************)
\* C26 (as claimed): for every triangle with integer vertices the filled
\* rendering writes the pixel of each of its three vertices, also when two
\* vertices share the smallest y.
C26_TriangleVertices ==
    DrawnFilled("Triangle") => Image(shape.points) \subseteq Image(calls)

(***************************************************************************)
(* Invariants of the gesture state (SpecMain).                             *)
(***************************************************************************)
\* C27 (as claimed): while the polygon tool is selected, after every
\* processed event the number of pending clicked points is strictly less
\* than selected_polygon_sides.
C27_PendingBelowSides ==
    (event # NoEvent /\ app.raised = None /\ app.selected_tool = "polygon") =>
        Len(app.points) < app.selected_polygon_sides

\* C28: in every reachable state, drawing == True implies that
\* selected_tool is one of line, rectangle, circle, ellipse and that
\* start_pos is set.
C28_DrawingHasToolAndStart ==
    app.drawing =>
        /\ app.selected_tool \in TwoPointTools
        /\ app.start_pos # NoPos

C28_Witness ==
    /\ app.drawing /\ app.selected_tool = "ellipse"
    /\ app.start_pos = <<CANVAS_WIDTH - 1, 0>>
    /\ event # NoEvent /\ event.type = "MOUSEBUTTONDOWN" /\ event.tool = None

\* C29 (as claimed): after a MOUSEBUTTONUP with button 1 has been
\* processed, drawing is False and start_pos is None, wherever the pointer
\* is when the button is released.
C29_ReleaseEndsDrag ==
    (event # NoEvent /\ event.type = "MOUSEBUTTONUP" /\ event.button = 1) =>
        /\ app.drawing = FALSE
        /\ app.start_pos = NoPos

====
